---- MODULE Spec2Model ----
(***************************************************************************)
(* Model of the Control Plane of the tutoring agent                        *)
(* (agentic_system/src/control_plane.py) and of the ToolRegistry handlers  *)
(* it routes to (agentic_system/src/tools.py).                             *)
(*                                                                         *)
(* Python values are represented as follows.                               *)
(*  - A str is a sequence of tokens; a token is an identifier, "(", ")"    *)
(*    or " ".  Identifiers contain neither parentheses nor blanks, so      *)
(*    split('(') and strip() act on token boundaries.                      *)
(*  - A value that is either a str or None is a record [t, s].             *)
(*  - A dict of keyword parameters is a set of <<key, value>> pairs.       *)
(*  - A plan is a record; isdict tells a mapping from a bare string, keys  *)
(*    are the keys present in the mapping.                                 *)
(*  - A list object that is shared by reference lives in heap; a field     *)
(*    referring to it holds its address.                                   *)
(***************************************************************************)
EXTENDS Integers, Sequences, FiniteSets, TLC

\* ---- bounds of the model ------------------------------------------------
NumThreads == 2
MaxCalls == 2
MaxClock == 1

Threads == 1..NumThreads

\* ---- Python values --------------------------------------------------------
PyNone == [t |-> "None", s |-> <<>>]
PyStr(s) == [t |-> "str", s |-> s]

\* bool(v) for a value that is a str or None
Truthy(v) == v.t = "str" /\ v.s # <<>>

Keys(params) == {kv[1] : kv \in params}
Value(params, k) == (CHOOSE kv \in params : kv[1] = k)[2]

\* ---- the safety policy ------------------------------------------------------
VARIABLES
  safety_rules,            \* ControlPlane.safety_rules
  safe_write_directories,  \* ToolRegistry.safe_write_directories
  command_whitelist        \* ToolRegistry.command_whitelist
policy_vars == <<safety_rules, safe_write_directories, command_whitelist>>
settings_vars == <<safe_write_directories, command_whitelist>>

\* ---- ControlPlane.__init__ ------------------------------------------------
\* the value of self.safety_rules["allowed_tools"] after construction
InitialAllowedTools ==
  { <<"search_knowledge">>, <<"assess_understanding">>,
    <<"update_learner_profile">>, <<"log_interaction">>,
    <<"read_file">>, <<"list_directory">>,
    <<"ingest_document">>, <<"analyze_image">>,
    <<"write_file">>, <<"delete_file">>,
    <<"web_search">>, <<"fetch_url">>, <<"execute_command">>,
    <<"run_code">>, <<"set_assignment">> }

\* self.safety_rules after construction
InitialSafetyRules ==
  [max_tools_per_request |-> 5, allowed_tools |-> InitialAllowedTools]
\* safety_rules["allowed_tools"], safety_rules["max_tools_per_request"]
allowed_tools == safety_rules.allowed_tools
max_tools_per_request == safety_rules.max_tools_per_request

\* the literal the parameter check of _validate_request compares with
ParamCeiling == 10

\* ---- plans ----------------------------------------------------------------
DictPlan(keys, action, params) ==
  [isdict |-> TRUE, keys |-> keys, action |-> action,
   parameters |-> params, text |-> <<>>]
StrPlan(s) ==
  [isdict |-> FALSE, keys |-> {}, action |-> PyNone,
   parameters |-> {}, text |-> s]

\* plan.get("action")
GetAction(plan) == IF "action" \in plan.keys THEN plan.action ELSE PyNone
\* plan.get("parameters", {})
GetParameters(plan) ==
  IF "parameters" \in plan.keys THEN plan.parameters ELSE {}

\* ---- str operations used by _validate_request -----------------------------
HasParen(s) == \E i \in 1..Len(s) : s[i] = "("
FirstParen(s) ==
  CHOOSE i \in 1..Len(s) : s[i] = "(" /\ \A j \in 1..(i - 1) : s[j] # "("
\* s.split('(')[0]
SplitHead(s) == SubSeq(s, 1, FirstParen(s) - 1)

Whitespace == {" ", "\n"}
RECURSIVE LStrip(_)
LStrip(s) ==
  IF s # <<>> /\ Head(s) \in Whitespace THEN LStrip(Tail(s)) ELSE s
RECURSIVE RStrip(_)
RStrip(s) ==
  IF s # <<>> /\ s[Len(s)] \in Whitespace
  THEN RStrip(SubSeq(s, 1, Len(s) - 1)) ELSE s
\* s.strip()
Strip(s) == RStrip(LStrip(s))

\* action.split('(')[0].strip() if '(' in action else action
BaseAction(s) == IF HasParen(s) THEN Strip(SplitHead(s)) ELSE s

\* the action _validate_request looks at
ValidatedAction(plan) ==
  IF plan.isdict THEN GetAction(plan) ELSE PyStr(plan.text)

\* ControlPlane._validate_request
validate_request(plan) ==
  LET action == ValidatedAction(plan) IN
  IF /\ Truthy(action)
     /\ action.s \notin allowed_tools
     /\ BaseAction(action.s) \notin allowed_tools
  THEN FALSE
  ELSE IF plan.isdict /\ Cardinality(GetParameters(plan)) > ParamCeiling
  THEN FALSE
  ELSE TRUE

\* ---- plans submitted by callers (bounded input set) ----------------------
FillerKeys ==
  <<"p1", "p2", "p3", "p4", "p5", "p6", "p7", "p8", "p9", "p10", "p11", "p12">>
Filler(n) == {<<FillerKeys[i], "v">> : i \in 1..n}

AssignmentParams == {<<"description", "d">>, <<"language", "python">>}
SessionParams == AssignmentParams \cup {<<"session_id", "s">>}
ProfileParams(topic) == {<<"topic", topic>>, <<"proficiency", "expert">>}
EventParams == {<<"event", "e">>, <<"details", "x">>}

BothKeys == {"action", "parameters"}

Plans ==
  { DictPlan({}, PyNone, {}),
    DictPlan({"action"}, PyStr(<<>>), {}),
    DictPlan({"action"}, PyStr(<<"rm_rf">>), {}),
    DictPlan(BothKeys, PyStr(<<"rm_rf", "(", "set_assignment", ")">>),
             AssignmentParams),
    DictPlan(BothKeys, PyStr(<<"set_assignment">>), AssignmentParams),
    DictPlan(BothKeys, PyStr(<<"set_assignment">>), SessionParams),
    DictPlan(BothKeys, PyStr(<<"set_assignment", " ", "(", "x", ")">>),
             AssignmentParams),
    DictPlan(BothKeys, PyStr(<<"set_assignment">>),
             Filler(max_tools_per_request + 1)),
    DictPlan(BothKeys, PyStr(<<"set_assignment">>), Filler(ParamCeiling + 1)),
    DictPlan(BothKeys, PyStr(<<"update_learner_profile">>),
             ProfileParams("t1")),
    DictPlan(BothKeys, PyStr(<<"update_learner_profile">>),
             ProfileParams("t2")),
    DictPlan(BothKeys, PyStr(<<"log_interaction">>), EventParams),
    StrPlan(<<"set_assignment">>) }

\* placeholders of a thread that is not inside execute
NoPlan == DictPlan({}, PyNone, {})
NoResult == [tool |-> "none"]

\* ---- state ------------------------------------------------------------------
VARIABLES
  execution_log,    \* ControlPlane.execution_log
  db_available,     \* ToolRegistry.db is not None
  db_profile,       \* the user_profiles row of the database
  db_log_rows,      \* number of rows of interaction_logs
  heap,             \* list objects shared by reference, by address
  user_state,       \* ToolRegistry.user_state
  interaction_log,  \* ToolRegistry.interaction_log
  clock,            \* the last reading of datetime.now()
  pc,               \* position of each thread inside execute
  plan,             \* the plan argument of each running execute
  result,           \* the local variable result of each running execute
  slot,             \* index at which a thread's audit entry was appended
  history,          \* outcomes of the finished execute calls, in order
  started,          \* number of execute calls begun
  files,            \* the regular files of the host: path -> content
  dirs,             \* the directories of the host
  toolchains,       \* the commands found on the host PATH
  procs,            \* the processes started by tool calls and still running
  jpc,              \* position of each run_code call
  job,              \* the arguments and local variables of each run_code call
  outcome,          \* how the last finished tool call ended
  tool_calls        \* number of tool calls begun

registry_vars ==
  <<db_profile, db_log_rows, heap, user_state, interaction_log>>
host_vars == <<files, dirs, toolchains, procs>>
tools_vars == <<host_vars, jpc, job, outcome, tool_calls, settings_vars>>
plane_vars ==
  <<safety_rules, execution_log, db_available, db_profile, db_log_rows, heap,
    user_state, interaction_log, clock, pc, plan, result, slot, history, started>>
vars == <<plane_vars, tools_vars>>

\* ---- run_code calls ------------------------------------------------------------
NumJobs == 2
Jobs == 1..NumJobs

\* a run_code call that has not begun
NotCompiled == [finished |-> FALSE, returncode |-> 0, stderr |-> <<>>]
NotRun ==
  [finished |-> FALSE, stdout |-> <<>>, stderr |-> <<>>, returncode |-> 0]
NoJob ==
  [code |-> "", language |-> "", id |-> 0, created |-> <<>>,
   temp_path |-> <<>>, output_path |-> <<>>, spawns |-> <<>>,
   program |-> "", compiled |-> NotCompiled, ran |-> NotRun]
NoOutcome == [call |-> "none"]

\* the toolchains run_code invokes by name
AllToolchains == {"python3", "node", "go", "rustc", "gcc", "g++"}

\* the host before any tool call
HostInit ==
  /\ files = [f \in { <<"/", "etc", "/", "passwd">>, <<"/", "tmp", "/", "x">> }
               |-> "old"]
  /\ dirs = { <<"/">>, <<"/", "etc">>, <<"/", "tmp">>, <<"/", "app">>,
              <<"/", "app", "/", "uploads">> }
  /\ toolchains \in {AllToolchains, {}}
  /\ procs = {}

\* self.safe_write_directories, self.command_whitelist after construction
InitialWriteDirectories == << <<"/", "app", "/", "uploads">>, <<"/", "tmp">> >>
InitialWhitelist ==
  << <<"ls">>, <<"pwd">>, <<"cat">>, <<"grep">>, <<"find">>, <<"wc">>,
     <<"head">>, <<"tail">> >>

ToolsInit ==
  /\ HostInit
  /\ safe_write_directories = InitialWriteDirectories
  /\ command_whitelist = InitialWhitelist
  /\ jpc = [j \in Jobs |-> "idle"]
  /\ job = [j \in Jobs |-> NoJob]
  /\ outcome = NoOutcome
  /\ tool_calls = 0

\* ControlPlane.__init__ and ToolRegistry.__init__
PlaneInit ==
  /\ safety_rules = InitialSafetyRules
  /\ execution_log = <<>>
  /\ db_available \in BOOLEAN
  /\ db_profile = [proficiency |-> "fundamental", topics_covered |-> <<>>]
  /\ db_log_rows = 0
  /\ heap = << <<>> >>
  /\ user_state = [proficiency |-> "fundamental", topics_covered |-> 1]
  /\ interaction_log = <<>>
  /\ clock = 0
  /\ pc = [t \in Threads |-> "idle"]
  /\ plan = [t \in Threads |-> NoPlan]
  /\ result = [t \in Threads |-> NoResult]
  /\ slot = [t \in Threads |-> 0]
  /\ history = <<>>
  /\ started = 0

\* the host is the same for every registry: one host state is enough to
\* exercise the control plane
Init ==
  /\ PlaneInit
  /\ ToolsInit
  /\ toolchains = AllToolchains

\* ---- how an execute call ends ------------------------------------------------
Leave(t, p, kind, envelope, at) ==
  /\ history' = Append(history,
       [plan |-> p, kind |-> kind, envelope |-> envelope, slot |-> at])
  /\ pc' = [pc EXCEPT ![t] = "idle"]
  /\ plan' = [plan EXCEPT ![t] = NoPlan]
  /\ result' = [result EXCEPT ![t] = NoResult]
  /\ slot' = [slot EXCEPT ![t] = 0]

\* a fault after which the control plane stops admitting the failed action
Fault_Disables(t, exception) ==
  /\ Leave(t, plan[t], "raised", [exception |-> exception], 0)
  /\ safety_rules' =
       [safety_rules EXCEPT !.allowed_tools =
          @ \ {GetAction(plan[t]).s}]
  /\ UNCHANGED <<execution_log, registry_vars, clock>>

\* an exception leaves execute
Fault(t, exception) ==
  /\ Leave(t, plan[t], "raised", [exception |-> exception], 0)
  /\ UNCHANGED <<safety_rules, execution_log, registry_vars, clock>>

\* a rejection that also records the attempt in the audit log
Rejected_Logged(t, p) ==
  /\ Leave(t, p, "rejected",
           [error |-> "safety validation failed", plan |-> p], 0)
  /\ execution_log' = Append(execution_log,
       [timestamp |-> clock, plan |-> p,
        result |-> [error |-> "safety validation failed"]])
  /\ UNCHANGED <<safety_rules, registry_vars>>

\* return {"error": "safety validation failed", "plan": plan}
Rejected(t, p) ==
  /\ Leave(t, p, "rejected",
           [error |-> "safety validation failed", plan |-> p], 0)
  /\ UNCHANGED <<safety_rules, execution_log, registry_vars>>

\* ---- ToolRegistry handlers ------------------------------------------------
\* a handler table that lacks the entry of set_assignment
tool_map_Partial ==
  <<"search_knowledge">> :> "search_knowledge" @@
  <<"assess_understanding">> :> "assess_understanding" @@
  <<"update_learner_profile">> :> "update_learner_profile" @@
  <<"log_interaction">> :> "log_interaction" @@
  <<"read_file">> :> "read_file" @@
  <<"list_directory">> :> "list_directory" @@
  <<"ingest_document">> :> "ingest_document" @@
  <<"analyze_image">> :> "analyze_image" @@
  <<"write_file">> :> "write_file" @@
  <<"delete_file">> :> "delete_file" @@
  <<"web_search">> :> "web_search" @@
  <<"fetch_url">> :> "fetch_url" @@
  <<"execute_command">> :> "execute_command" @@
  <<"run_code">> :> "run_code"

\* tool_map in _route_and_execute: action name -> method of the registry
tool_map ==
  <<"search_knowledge">> :> "search_knowledge" @@
  <<"assess_understanding">> :> "assess_understanding" @@
  <<"update_learner_profile">> :> "update_learner_profile" @@
  <<"log_interaction">> :> "log_interaction" @@
  <<"read_file">> :> "read_file" @@
  <<"list_directory">> :> "list_directory" @@
  <<"ingest_document">> :> "ingest_document" @@
  <<"analyze_image">> :> "analyze_image" @@
  <<"write_file">> :> "write_file" @@
  <<"delete_file">> :> "delete_file" @@
  <<"web_search">> :> "web_search" @@
  <<"fetch_url">> :> "fetch_url" @@
  <<"execute_command">> :> "execute_command" @@
  <<"run_code">> :> "run_code" @@
  <<"set_assignment">> :> "set_assignment"

\* Parameters of the handlers: <<required, with a default>>
Signature(name) ==
  CASE name = "set_assignment" -> <<{"description"}, {"language"}>>
    [] name = "update_learner_profile" -> <<{"topic", "proficiency"}, {}>>
    [] name = "log_interaction" -> <<{"event", "details"}, {}>>

\* tool_func(**params) binds: no required parameter is missing and no
\* keyword is unexpected (a TypeError otherwise)
Binds(name, params) ==
  /\ Signature(name)[1] \subseteq Keys(params)
  /\ Keys(params) \subseteq Signature(name)[1] \cup Signature(name)[2]

Elems(list) == {list[i] : i \in 1..Len(list)}

\* the routed handler returned r
Routed(t, r) ==
  /\ result' = [result EXCEPT ![t] = r]
  /\ pc' = [pc EXCEPT ![t] = "routed"]
  /\ UNCHANGED <<safety_rules, execution_log, plan, slot, history>>

\* datetime.now(): the clock is read, at or after its last reading
Now == clock' \in clock..MaxClock

\* ToolRegistry.set_assignment
set_assignment(t, params) ==
  /\ Routed(t, [tool |-> "set_assignment", status |-> "assignment_set",
                description |-> Value(params, "description"),
                language |-> IF "language" \in Keys(params)
                             THEN Value(params, "language") ELSE "python",
                message |-> "Assignment has been set in the coding workspace."])
  /\ UNCHANGED <<registry_vars, clock>>

\* DatabaseManager.update_profile: the row after the update
DbUpdateProfile(row, proficiency, topic) ==
  LET set == IF proficiency # ""
             THEN [row EXCEPT !.proficiency = proficiency] ELSE row
  IN IF topic # "" /\ topic \notin Elems(set.topics_covered)
     THEN [set EXCEPT !.topics_covered = Append(@, topic)]
     ELSE set

\* ToolRegistry.update_learner_profile
update_learner_profile(t, params) ==
  LET topic == Value(params, "topic")
      proficiency == Value(params, "proficiency")
  IN
  /\ IF db_available
     THEN \* the database returns a new dict holding a new list
          /\ db_profile' = DbUpdateProfile(db_profile, proficiency, topic)
          /\ heap' = Append(heap, db_profile'.topics_covered)
          /\ user_state' = [proficiency |-> db_profile'.proficiency,
                            topics_covered |-> Len(heap')]
     ELSE \* the list of user_state is extended in place
          /\ heap' = IF topic \in Elems(heap[user_state.topics_covered])
                     THEN heap
                     ELSE [heap EXCEPT ![user_state.topics_covered] =
                             Append(@, topic)]
          /\ user_state' = [user_state EXCEPT !.proficiency = proficiency]
          /\ UNCHANGED db_profile
  \* user_state.copy() is shallow: the copy refers to the same list
  /\ Routed(t, [tool |-> "update_learner_profile", status |-> "updated",
                profile |-> user_state'])
  /\ UNCHANGED <<db_log_rows, interaction_log, clock>>

\* ToolRegistry.log_interaction
log_interaction(t, params) ==
  LET entry_id == IF db_available THEN db_log_rows + 1 ELSE -1
      log_entry == [timestamp |-> clock', event |-> Value(params, "event"),
                    details |-> Value(params, "details")]
  IN
  /\ Now
  /\ db_log_rows' = IF db_available THEN db_log_rows + 1 ELSE db_log_rows
  /\ interaction_log' = Append(interaction_log, log_entry)
  /\ Routed(t, [tool |-> "log_interaction", status |-> "logged",
                entry_id |-> IF entry_id # -1 THEN entry_id
                             ELSE Len(interaction_log')])
  /\ UNCHANGED <<db_profile, heap, user_state>>

\* a router that indexes the table: tool_map[action] raises KeyError
route_and_execute_KeyError(t, action, params) ==
  IF action.t = "str" /\ action.s \in DOMAIN tool_map
  THEN LET name == tool_map[action.s] IN
       IF ~Binds(name, params)
       THEN Fault(t, "TypeError")
       ELSE CASE name = "set_assignment" -> set_assignment(t, params)
              [] name = "update_learner_profile" ->
                   update_learner_profile(t, params)
              [] name = "log_interaction" -> log_interaction(t, params)
  ELSE Fault(t, "KeyError")

\* ControlPlane._route_and_execute
route_and_execute(t, action, params) ==
  IF action.t = "str" /\ action.s \in DOMAIN tool_map
  THEN LET name == tool_map[action.s] IN
       IF ~Binds(name, params)
       THEN Fault(t, "TypeError")
       ELSE CASE name = "set_assignment" -> set_assignment(t, params)
              [] name = "update_learner_profile" ->
                   update_learner_profile(t, params)
              [] name = "log_interaction" -> log_interaction(t, params)
  ELSE /\ Routed(t, [error |-> "unknown action", action |-> action])
       /\ UNCHANGED <<registry_vars, clock>>

\* ---- ControlPlane.execute, step by step --------------------------------------
\* an append that stores the entry twice
AuditAppend_Twice(log, entry) == Append(Append(log, entry), entry)

\* self.execution_log.append(entry)
AuditAppend(log, entry) == Append(log, entry)

\* execute is entered with plan p and validates it
Validate(t, p) ==
  /\ pc[t] = "idle"
  \* callers are interchangeable: the first free one takes the call
  /\ \A u \in Threads : u < t => pc[u] # "idle"
  /\ started < MaxCalls
  /\ started' = started + 1
  /\ IF ~validate_request(p)
     THEN Rejected(t, p)
     ELSE /\ pc' = [pc EXCEPT ![t] = "validated"]
          /\ plan' = [plan EXCEPT ![t] = p]
          /\ UNCHANGED <<safety_rules, execution_log, registry_vars, result,
                         slot, history>>
  /\ UNCHANGED <<db_available, clock, tools_vars>>

\* action = plan.get("action"); params = plan.get("parameters", {});
\* result = self._route_and_execute(action, params)
Route(t) ==
  /\ pc[t] = "validated"
  /\ IF ~plan[t].isdict
     THEN Fault(t, "AttributeError")
     ELSE route_and_execute(t, GetAction(plan[t]), GetParameters(plan[t]))
  /\ UNCHANGED <<db_available, started, tools_vars>>

\* self.execution_log.append({timestamp, plan, result})
LogExecution(t) ==
  /\ pc[t] = "routed"
  /\ Now
  /\ execution_log' = AuditAppend(execution_log,
       [timestamp |-> clock', plan |-> plan[t], result |-> result[t]])
  /\ slot' = [slot EXCEPT ![t] = Len(execution_log')]
  /\ pc' = [pc EXCEPT ![t] = "appended"]
  /\ UNCHANGED <<safety_rules, registry_vars, db_available, plan, result,
                 history,
                 started, tools_vars>>

\* return {"success": True, "action", "result", "metadata"}
Return(t) ==
  /\ pc[t] = "appended"
  /\ Leave(t, plan[t], "success",
           [success |-> TRUE, action |-> GetAction(plan[t]),
            result |-> result[t],
            metadata |-> [execution_count |-> Len(execution_log),
                          safety_checks_passed |-> TRUE]],
           slot[t])
  /\ UNCHANGED <<safety_rules, execution_log, registry_vars, db_available,
                 clock, started,
                 tools_vars>>

Next ==
  \/ \E t \in Threads : \E p \in Plans : Validate(t, p)
  \/ \E t \in Threads : Route(t)
  \/ \E t \in Threads : LogExecution(t)
  \/ \E t \in Threads : Return(t)

Spec == Init /\ [][Next]_vars

\* ---- vocabulary of the properties ---------------------------------------------
Finished == 1..Len(history)
Successes == {i \in Finished : history[i].kind = "success"}
Count(i) == history[i].envelope.metadata.execution_count

\* the plan's action, stripped of a parenthesized suffix, is an allowed one
ActionAllowed(p) ==
  LET action == ValidatedAction(p) IN
  action.t = "str" /\ BaseAction(action.s) \in allowed_tools

\* the plan has no action: no key, None or the empty string
ActionAbsent(p) == p.isdict /\ ~Truthy(GetAction(p))

FailedValidation(i) ==
  /\ history[i].kind = "rejected"
  /\ history[i].envelope.error = "safety validation failed"

\* the call of plan p has got past validation
Admitted(p) ==
  \/ \E t \in Threads : pc[t] # "idle" /\ plan[t] = p
  \/ \E i \in 1..Len(execution_log) : execution_log[i].plan = p
  \/ \E i \in Finished : history[i].plan = p /\ history[i].kind # "rejected"

\* C1: every plan whose action, after stripping a parenthesized suffix, is
\* not an allowed action is answered with the "safety validation failed"
\* envelope, and is neither routed nor recorded in the audit log.
C1_DisallowedActionRejected ==
  /\ \A i \in Finished :
       ~ActionAllowed(history[i].plan) => FailedValidation(i)
  /\ \A t \in Threads : pc[t] # "idle" => ActionAllowed(plan[t])
  /\ \A i \in 1..Len(execution_log) : ActionAllowed(execution_log[i].plan)

\* C2: a plan without an action (no key, None, empty string) is answered with
\* a failure envelope, no handler is looked up for it and no audit entry is
\* appended for it.
C2_AbsentActionFailsClosed ==
  \A p \in Plans : ActionAbsent(p) =>
    /\ ~Admitted(p)
    /\ \A i \in Finished : history[i].plan = p => FailedValidation(i)

\* C3: a plan with an allowed action is rejected exactly when it carries more
\* parameters than the ceiling configured in the safety rules.
C3_ConfiguredCeilingEnforced ==
  \A p \in Plans : (p.isdict /\ ActionAllowed(p)) =>
    IF Cardinality(GetParameters(p)) > max_tools_per_request
    THEN ~Admitted(p)
    ELSE \A i \in Finished : history[i].plan = p => history[i].kind # "rejected"

\* C4: a call that fails validation changes neither the ToolRegistry state
\* nor the audit log, and leaves no handler result behind.
C4_RejectionChangesNothing ==
  [][(/\ Len(history') = Len(history) + 1
      /\ history'[Len(history')].kind = "rejected")
     => /\ registry_vars' = registry_vars
        /\ execution_log' = execution_log
        /\ result' = result]_vars

\* a disallowed action and an over-long parameter mapping have both been
\* rejected
C4_Witness ==
  /\ \E i \in Finished :
       history[i].kind = "rejected" /\ ~ActionAllowed(history[i].plan)
  /\ \E i \in Finished :
       history[i].kind = "rejected" /\ ActionAllowed(history[i].plan)

\* C5: every call whose plan passes validation ends by returning the success
\* envelope, with its audit entry (the plan and the raw result) in the log.
C5_ValidatedCallIsLogged ==
  \A i \in Finished : validate_request(history[i].plan) =>
    /\ history[i].kind = "success"
    /\ history[i].slot \in 1..Len(execution_log)
    /\ execution_log[history[i].slot].plan = history[i].plan

\* C6: no call of execute ends with an exception reaching the caller.
C6_NoFaultReachesCaller ==
  \A i \in Finished : history[i].kind # "raised"

\* C7: every call that returned success owns exactly one audit entry, which
\* holds its plan and its raw result; the log is as long as the number of
\* calls that have done their append.
Appended == {t \in Threads : pc[t] = "appended"}
C7_OneEntryPerExecution ==
  /\ Len(execution_log) = Cardinality(Successes) + Cardinality(Appended)
  /\ \A i \in Successes :
       /\ history[i].slot \in 1..Len(execution_log)
       /\ execution_log[history[i].slot].plan = history[i].plan
       /\ execution_log[history[i].slot].result = history[i].envelope.result
  /\ \A t \in Appended :
       /\ slot[t] \in 1..Len(execution_log)
       /\ execution_log[slot[t]].plan = plan[t]
       /\ execution_log[slot[t]].result = result[t]
  /\ \A i, j \in Successes : i # j => history[i].slot # history[j].slot
  /\ \A t, u \in Appended : t # u => slot[t] # slot[u]
  /\ \A i \in Successes : \A t \in Appended : history[i].slot # slot[t]

\* two calls that overlapped (both appended before either returned) have
\* both returned success
C7_Witness ==
  \E i, j \in Successes : i # j /\ Count(i) = Count(j)

\* the content of an audit entry, list references followed
Deref(r, h) ==
  IF "profile" \in DOMAIN r
  THEN [r EXCEPT !.profile = [@ EXCEPT !.topics_covered = h[@]]]
  ELSE r
Content(entry, h) == [entry EXCEPT !.result = Deref(@, h)]

\* C8: the audit log never shrinks, and an entry keeps its position and its
\* (timestamp, plan, result) content.
C8_AppendOnly ==
  [][/\ Len(execution_log') >= Len(execution_log)
     /\ \A i \in 1..Len(execution_log) :
          Content(execution_log'[i], heap') = Content(execution_log[i], heap)
    ]_vars

\* C9: the execution_count a call returns is the number of calls that have
\* returned success so far, that call included.
C9_CountIsNumberOfSuccesses ==
  \A i \in Successes : Count(i) = Cardinality({j \in Successes : j <= i})

\* C10: no two calls return the same execution_count, and the counts grow
\* in the order in which the entries were appended.
C10_CountsDistinctAndOrdered ==
  \A i, j \in Successes :
    /\ i # j => Count(i) # Count(j)
    /\ history[i].slot < history[j].slot => Count(i) < Count(j)

\* the plan TutorAgent.teach builds for set_assignment when a session id is
\* present, which is the plan of test_set_assignment_fix
SessionPlan == DictPlan(BothKeys, PyStr(<<"set_assignment">>), SessionParams)

\* C11: execute on the set_assignment plan that carries a session_id returns
\* success with result.status = "assignment_set".
C11_SessionIdAccepted ==
  \A i \in Finished : history[i].plan = SessionPlan =>
    /\ history[i].kind = "success"
    /\ history[i].envelope.result.status = "assignment_set"

\* ---- the host as the tools see it --------------------------------------------
MaxToolCalls == 2

\* os.path.exists(path)
Exists(fs, ds, path) == path \in DOMAIN fs \/ path \in ds
\* str.startswith
startswith(str, prefix) ==
  Len(prefix) <= Len(str) /\ SubSeq(str, 1, Len(prefix)) = prefix

\* the file system after a file is written / removed
WithFile(fs, path, content) ==
  [f \in DOMAIN fs \cup {path} |-> IF f = path THEN content ELSE fs[f]]
WithoutFile(fs, path) == [f \in DOMAIN fs \ {path} |-> fs[f]]

\* ---- ToolRegistry.run_code ------------------------------------------------------
lang_config ==
  [python |-> [ext |-> ".py", compile |-> FALSE, cmd |-> <<"python3">>,
               compiler |-> ""],
   javascript |-> [ext |-> ".js", compile |-> FALSE, cmd |-> <<"node">>,
                   compiler |-> ""],
   go |-> [ext |-> ".go", compile |-> FALSE, cmd |-> <<"go", "run">>,
           compiler |-> ""],
   rust |-> [ext |-> ".rs", compile |-> TRUE, cmd |-> <<>>,
             compiler |-> "rustc"],
   c |-> [ext |-> ".c", compile |-> TRUE, cmd |-> <<>>, compiler |-> "gcc"],
   cpp |-> [ext |-> ".cpp", compile |-> TRUE, cmd |-> <<>>,
            compiler |-> "g++"]]
\* list(lang_config.keys())
SupportedLanguages == <<"python", "javascript", "go", "rust", "c", "cpp">>

\* the <<code, language>> pairs callers submit
Submissions ==
  { <<"print(2 + 2)", "python">>, <<"print(1/0)", "python">>,
    <<"remove own source", "python">>,
    <<"flood", "javascript">>,
    <<"sleep", "go">>,
    <<"syntax error", "rust">>,
    <<"print(1/0)", "c">>, <<"slow build", "cpp">>,
    <<"print(2 + 2)", "cobol">> }

\* the only output limit of the registry: result.stdout[:1000] in
\* execute_command
OutputLimit == 1000

\* what the toolchains do with a program: the compiler's verdict ...
CompilerExit(code) ==
  IF code = "syntax error"
  THEN [returncode |-> 1, stderr |-> <<"error: expected declaration", "\n">>]
  ELSE [returncode |-> 0, stderr |-> <<>>]
\* ... whether compiling or running outlasts the timeout ...
SlowToCompile(code) == code = "slow build"
SlowToRun(code) == code = "sleep"
\* ... whether the program removes the file it was started from
\* (os.remove(sys.argv[0])) ...
RemovesOwnSource(code) == code = "remove own source"
\* ... and what the program prints and returns when it runs to its end
ProgramExit(code) ==
  CASE code = "print(2 + 2)" ->
         [stdout |-> <<"4", "\n">>, stderr |-> <<>>, returncode |-> 0]
    [] code = "print(1/0)" ->
         [stdout |-> <<>>, stderr |-> <<"ZeroDivisionError", "\n">>,
          returncode |-> 1]
    [] code = "flood" ->
         [stdout |-> [i \in 1..(OutputLimit + 1) |-> "x"], stderr |-> <<>>,
          returncode |-> 0]
    [] code = "syntax error" ->
         [stdout |-> <<>>, stderr |-> <<"SyntaxError", "\n">>,
          returncode |-> 1]
    [] OTHER -> [stdout |-> <<>>, stderr |-> <<>>, returncode |-> 0]

\* tempfile.NamedTemporaryFile(suffix=ext): a name no file has yet
Stems == {"a", "b"}
TempName(stem, ext) == <<"/", "tmp", "/", "tmp", stem, ext>>
\* temp_path.replace(ext, "")
Replace(path, ext) == SelectSeq(path, LAMBDA tok : tok # ext)

\* processes: subprocess.run starts one child; compilers and "go run" start
\* further processes of their own
Forks(argv) == argv[1] \in {<<"go">>, <<"rustc">>, <<"gcc">>, <<"g++">>}
Child(id) == [id |-> id, role |-> "child"]
Descendant(id) == [id |-> id, role |-> "descendant"]
Spawned(ps, id, argv) ==
  ps \cup {Child(id)} \cup (IF Forks(argv) THEN {Descendant(id)} ELSE {})
\* the child and everything it started have ended
Exited(ps, id) == {q \in ps : q.id # id}
\* subprocess.run on timeout: process.kill() on the child it started
Killed(ps, id) == ps \ {Child(id)}

\* run_code returns or raises
Ended(j, jb, kind, res) ==
  /\ outcome' = [call |-> "run_code", id |-> jb.id, kind |-> kind,
                 result |-> res, code |-> jb.code, language |-> jb.language,
                 created |-> jb.created, temp_path |-> jb.temp_path,
                 output_path |-> jb.output_path, spawns |-> jb.spawns,
                 compiled |-> jb.compiled, ran |-> jb.ran]
  /\ jpc' = [jpc EXCEPT ![j] = "idle"]
  /\ job' = [job EXCEPT ![j] = NoJob]

\* a handler cleanup that forgets the source file
HandlerCleanup_KeepsSource(fs, ds, jb) ==
  IF /\ lang_config[jb.language].compile
     /\ jb.output_path # <<>>
     /\ Exists(fs, ds, jb.output_path)
  THEN WithoutFile(fs, jb.output_path)
  ELSE fs

\* the two except branches of run_code: remove what exists
HandlerCleanup(fs, ds, jb) ==
  LET left == IF Exists(fs, ds, jb.temp_path)
              THEN WithoutFile(fs, jb.temp_path) ELSE fs
  IN IF /\ lang_config[jb.language].compile
        /\ jb.output_path # <<>>
        /\ Exists(left, ds, jb.output_path)
     THEN WithoutFile(left, jb.output_path)
     ELSE left

\* a timeout after which the command is started once more
TimedOut_Retry(j, jb, fs) ==
  IF Len(jb.spawns) < 3
  THEN /\ files' = fs
       /\ job' = [job EXCEPT ![j] = jb]
       /\ jpc' = [jpc EXCEPT ![j] =
                   IF lang_config[jb.language].compile /\ jb.compiled.finished
                   THEN "compiled" ELSE "materialized"]
       /\ UNCHANGED outcome
  ELSE /\ files' = HandlerCleanup(fs, dirs, jb)
       /\ Ended(j, jb, "returned", [error |-> "code execution timed out"])

\* except subprocess.TimeoutExpired
TimedOut(j, jb, fs) ==
  /\ files' = HandlerCleanup(fs, dirs, jb)
  /\ Ended(j, jb, "returned", [error |-> "code execution timed out"])

\* a handler that clears the whole temporary directory
FailedToRun_ClearsTmp(j, jb, fs, exception) ==
  /\ files' = [f \in {g \in DOMAIN fs : ~startswith(g, <<"/", "tmp">>)}
                 |-> fs[f]]
  /\ Ended(j, jb, "returned",
           [error |-> "failed to run", language |-> jb.language,
            exception |-> exception])

\* except Exception as e
FailedToRun(j, jb, fs, exception) ==
  /\ files' = HandlerCleanup(fs, dirs, jb)
  /\ Ended(j, jb, "returned",
           [error |-> "failed to run", language |-> jb.language,
            exception |-> exception])

\* an unsupported language noticed only after the source file was written
Unsupported_AfterCreate(j, jb) ==
  /\ outcome' = [call |-> "run_code", id |-> jb.id, kind |-> "returned",
                 result |-> [error |-> "unsupported language",
                             language |-> jb.language,
                             supported |-> SupportedLanguages],
                 code |-> jb.code, language |-> jb.language,
                 created |-> <<>>, temp_path |-> <<>>,
                 output_path |-> <<>>, spawns |-> <<>>,
                 compiled |-> NotCompiled, ran |-> NotRun]
  /\ files' = WithFile(files, TempName("a", ".txt"), jb.code)
  /\ UNCHANGED <<jpc, job>>

\* return {"error": "unsupported language: ... Supported: [...]"}
Unsupported(j, jb) ==
  /\ outcome' = [call |-> "run_code", id |-> jb.id, kind |-> "returned",
                 result |-> [error |-> "unsupported language",
                             language |-> jb.language,
                             supported |-> SupportedLanguages],
                 code |-> jb.code, language |-> jb.language,
                 created |-> <<>>, temp_path |-> <<>>,
                 output_path |-> <<>>, spawns |-> <<>>,
                 compiled |-> NotCompiled, ran |-> NotRun]
  /\ UNCHANGED <<files, jpc, job>>

\* a compilation_error result that drops the compiler's diagnostic
CompilationError_NoDiagnostic(language, exit) ==
  [tool |-> "run_code", status |-> "compilation_error",
   language |-> language, stderr |-> <<>>,
   return_code |-> exit.returncode]

\* the result returned when the compiler exits non-zero
CompilationError(language, exit) ==
  [tool |-> "run_code", status |-> "compilation_error",
   language |-> language, stderr |-> exit.stderr,
   return_code |-> exit.returncode]

\* the result returned when the program has run to its end
SuccessResult(language, exit) ==
  [tool |-> "run_code", status |-> "success", language |-> language,
   stdout |-> exit.stdout, stderr |-> exit.stderr,
   return_code |-> exit.returncode]

\* validation of the language and creation of the source file
RunCode(j, code, language) ==
  /\ jpc[j] = "idle"
  \* calls are interchangeable: the first free one is taken
  /\ \A u \in Jobs : u < j => jpc[u] # "idle"
  /\ tool_calls < MaxToolCalls
  /\ tool_calls' = tool_calls + 1
  /\ LET jb == [NoJob EXCEPT !.code = code, !.language = language,
                             !.id = tool_calls'] IN
     IF language \notin DOMAIN lang_config
     THEN Unsupported(j, jb)
     ELSE \E io \in {"ok", "create fails", "write fails"} :
          \E stem \in Stems :
          LET path == TempName(stem, lang_config[language].ext) IN
          /\ ~Exists(files, dirs, path)
          /\ CASE io = "create fails" ->
                  \* the handler reads temp_path, which is not assigned
                  /\ Ended(j, jb, "raised", [exception |-> "UnboundLocalError"])
                  /\ UNCHANGED files
             [] io = "write fails" ->
                  \* the file exists, temp_path is still not assigned
                  /\ files' = WithFile(files, path, "")
                  /\ Ended(j, [jb EXCEPT !.created = path], "raised",
                           [exception |-> "UnboundLocalError"])
             [] io = "ok" ->
                  /\ files' = WithFile(files, path, code)
                  /\ job' = [job EXCEPT ![j] =
                       [jb EXCEPT !.created = path, !.temp_path = path]]
                  /\ jpc' = [jpc EXCEPT ![j] = "materialized"]
                  /\ UNCHANGED outcome
  /\ UNCHANGED <<dirs, toolchains, procs, plane_vars,
                 settings_vars>>

\* the compiler is started
CompileSpawn(j) ==
  /\ jpc[j] = "materialized"
  /\ lang_config[job[j].language].compile
  /\ LET config == lang_config[job[j].language]
         output_path == Replace(job[j].temp_path, config.ext)
         compiler == IF job[j].language = "rust" THEN "rustc"
                     ELSE config.compiler
         compile_cmd == << <<compiler>>, job[j].temp_path, <<"-o">>,
                           output_path >>
         jb == [job[j] EXCEPT !.output_path = output_path]
     IN IF compiler \notin toolchains
        THEN /\ FailedToRun(j, jb, files, "FileNotFoundError")
             /\ UNCHANGED procs
        ELSE /\ procs' = Spawned(procs, jb.id, compile_cmd)
             /\ job' = [job EXCEPT ![j] =
                  [jb EXCEPT !.spawns = Append(@, compile_cmd)]]
             /\ jpc' = [jpc EXCEPT ![j] = "compiling"]
             /\ UNCHANGED <<files, outcome>>
  /\ UNCHANGED <<dirs, toolchains, tool_calls, plane_vars,
                 settings_vars>>

\* the compiler ends, is killed from outside, or outlasts the 30 s
CompileWait(j) ==
  /\ jpc[j] = "compiling"
  /\ LET jb == job[j] IN
     IF SlowToCompile(jb.code)
     THEN \E partial \in BOOLEAN :
          /\ procs' = Killed(procs, jb.id)
          /\ TimedOut(j, jb, IF partial
                             THEN WithFile(files, jb.output_path, "partial")
                             ELSE files)
     ELSE \E signal \in BOOLEAN :
          LET exit == IF signal THEN [returncode |-> -9, stderr |-> <<>>]
                      ELSE CompilerExit(jb.code)
              built == IF signal
                       THEN WithFile(files, jb.output_path, "partial")
                       ELSE IF exit.returncode = 0
                       THEN WithFile(files, jb.output_path, jb.code)
                       ELSE files
              done == [jb EXCEPT !.compiled =
                        [finished |-> TRUE, returncode |-> exit.returncode,
                         stderr |-> exit.stderr]]
          IN
          /\ procs' = Exited(procs, jb.id)
          /\ IF exit.returncode # 0
             THEN IF jb.temp_path \in DOMAIN built
                  THEN /\ files' = WithoutFile(built, jb.temp_path)
                       /\ Ended(j, done, "returned",
                                CompilationError(jb.language, exit))
                  ELSE FailedToRun(j, done, built, "FileNotFoundError")
             ELSE /\ files' = built
                  /\ job' = [job EXCEPT ![j] = done]
                  /\ jpc' = [jpc EXCEPT ![j] = "compiled"]
                  /\ UNCHANGED outcome
  /\ UNCHANGED <<dirs, toolchains, tool_calls, plane_vars,
                 settings_vars>>

\* the program is started
ExecSpawn(j) ==
  /\ \/ jpc[j] = "materialized" /\ ~lang_config[job[j].language].compile
     \/ jpc[j] = "compiled"
  /\ LET jb == job[j]
         config == lang_config[jb.language]
         exec_cmd == IF config.compile THEN <<jb.output_path>>
                     ELSE [i \in 1..Len(config.cmd) |-> <<config.cmd[i]>>]
                          \o <<jb.temp_path>>
         found == IF config.compile THEN jb.output_path \in DOMAIN files
                  ELSE config.cmd[1] \in toolchains
         program == IF config.compile THEN files[jb.output_path]
                    ELSE IF jb.temp_path \in DOMAIN files
                    THEN files[jb.temp_path] ELSE ""
     IN IF ~found
        THEN /\ FailedToRun(j, jb, files, "FileNotFoundError")
             /\ UNCHANGED procs
        ELSE IF program = "partial"
        THEN /\ FailedToRun(j, jb, files, "OSError")
             /\ UNCHANGED procs
        ELSE /\ procs' = Spawned(procs, jb.id, exec_cmd)
             /\ job' = [job EXCEPT ![j] =
                  [jb EXCEPT !.spawns = Append(@, exec_cmd),
                             !.program = program]]
             /\ jpc' = [jpc EXCEPT ![j] = "executing"]
             /\ UNCHANGED <<files, outcome>>
  /\ UNCHANGED <<dirs, toolchains, tool_calls, plane_vars,
                 settings_vars>>

\* the program ends or outlasts the 10 s
ExecWait(j) ==
  /\ jpc[j] = "executing"
  /\ LET jb == job[j]
         config == lang_config[jb.language]
     IN
     IF SlowToRun(jb.program)
     THEN /\ procs' = Killed(procs, jb.id)
          /\ TimedOut(j, jb, files)
     ELSE LET exit == ProgramExit(jb.program)
              done == [jb EXCEPT !.ran =
                        [finished |-> TRUE, stdout |-> exit.stdout,
                         stderr |-> exit.stderr,
                         returncode |-> exit.returncode]]
              after == IF /\ RemovesOwnSource(jb.program)
                          /\ jb.temp_path \in DOMAIN files
                       THEN WithoutFile(files, jb.temp_path) ELSE files
          IN
          /\ procs' = Exited(procs, jb.id)
          /\ IF jb.temp_path \notin DOMAIN after
             THEN FailedToRun(j, done, after, "FileNotFoundError")
             ELSE LET left == WithoutFile(after, jb.temp_path) IN
                  /\ files' = IF /\ config.compile
                                 /\ Exists(left, dirs, jb.output_path)
                              THEN WithoutFile(left, jb.output_path)
                              ELSE left
                  /\ Ended(j, done, "returned",
                           SuccessResult(jb.language, exit))
  /\ UNCHANGED <<dirs, toolchains, tool_calls, plane_vars,
                 settings_vars>>

SandboxNext ==
  \/ \E j \in Jobs : \E sub \in Submissions : RunCode(j, sub[1], sub[2])
  \/ \E j \in Jobs : CompileSpawn(j)
  \/ \E j \in Jobs : CompileWait(j)
  \/ \E j \in Jobs : ExecSpawn(j)
  \/ \E j \in Jobs : ExecWait(j)

SandboxInit == PlaneInit /\ ToolsInit

SpecSandbox == SandboxInit /\ [][SandboxNext]_vars

\* ---- properties of run_code -----------------------------------------------------
\* this step ends a run_code call
RunCodeEnds == outcome' # outcome /\ outcome'.call = "run_code"
\* the last tool call to end was a run_code call
RunCodeEnded == outcome.call = "run_code"
CompiledLanguages == {l \in DOMAIN lang_config : lang_config[l].compile}

\* C12: when run_code ends for a supported language, the source file it
\* created does not exist.
C12_SourceFileRemoved ==
  [][(RunCodeEnds /\ outcome'.created # <<>>)
     => outcome'.created \notin DOMAIN files']_vars

\* C13: when run_code ends for a compiled language, no file exists at the
\* output path of the call.
C13_ArtifactRemoved ==
  [][(/\ RunCodeEnds
      /\ outcome'.language \in CompiledLanguages
      /\ outcome'.output_path # <<>>)
     => outcome'.output_path \notin DOMAIN files']_vars

\* C14: when run_code ends by a timeout, it reports the timeout and none of
\* the processes the call started is running.
TimedOutResult(r) ==
  "error" \in DOMAIN r /\ r.error = "code execution timed out"
C14_ProcessTreeTerminated ==
  [][(/\ RunCodeEnds
      /\ outcome'.kind = "returned"
      /\ TimedOutResult(outcome'.result))
     => \A q \in procs' : q.id # outcome'.id]_vars

\* C15: run_code with an unsupported language returns the error that lists
\* the supported languages, creates no file and starts no process.
C15_UnsupportedLanguage ==
  [][(RunCodeEnds /\ outcome'.language \notin DOMAIN lang_config)
     => /\ outcome'.kind = "returned"
        /\ outcome'.result.error = "unsupported language"
        /\ outcome'.result.supported = SupportedLanguages
        /\ outcome'.created = <<>>
        /\ outcome'.spawns = <<>>
        /\ files' = files
        /\ procs' = procs]_vars

C15_Witness == RunCodeEnded /\ outcome.language = "cobol"

\* C16: a compiler that exits non-zero ends the call with compilation_error
\* and the compiler's stderr; the program is never started and the result has
\* no stdout.
C16_CompilationErrorEndsCall ==
  (RunCodeEnded /\ outcome.compiled.finished
                /\ outcome.compiled.returncode # 0)
  => /\ outcome.kind = "returned"
     /\ "status" \in DOMAIN outcome.result
     /\ outcome.result.status = "compilation_error"
     /\ outcome.result.stderr = outcome.compiled.stderr
     /\ "stdout" \notin DOMAIN outcome.result
     /\ Len(outcome.spawns) = 1
     /\ ~outcome.ran.finished

C16_Witness ==
  /\ RunCodeEnded
  /\ outcome.compiled.finished
  /\ outcome.compiled.returncode # 0
  /\ outcome.compiled.stderr # <<>>

\* C17: a program that ran to its end within the timeout gives status
\* success whatever its exit code and stderr, both reported unchanged;
\* print(2 + 2) gives stdout "4", print(1/0) names the error on stderr with a
\* non-zero exit code.
C17_SuccessWhateverTheExitCode ==
  (RunCodeEnded /\ outcome.ran.finished)
  => /\ outcome.kind = "returned"
     /\ "status" \in DOMAIN outcome.result
     /\ outcome.result.status = "success"
     /\ outcome.result.return_code = outcome.ran.returncode
     /\ outcome.result.stderr = outcome.ran.stderr
     /\ (outcome.code = "print(2 + 2)" /\ outcome.language = "python")
          => /\ Strip(outcome.result.stdout) = <<"4">>
             /\ outcome.result.return_code = 0
     /\ (outcome.code = "print(1/0)" /\ outcome.language = "python")
          => /\ "ZeroDivisionError" \in Elems(outcome.result.stderr)
             /\ outcome.result.return_code # 0

\* ---- ToolRegistry.write_file, delete_file, execute_command ---------------------
\* os.getcwd() of the service
getcwd == <<"/", "app">>

\* path.split("/"): the components of a path, each a sequence of tokens
RECURSIVE Split(_)
Split(path) ==
  IF path = <<>> THEN << <<>> >>
  ELSE IF Head(path) = "/" THEN << <<>> >> \o Split(Tail(path))
  ELSE LET rest == Split(Tail(path))
       IN << <<Head(path)>> \o rest[1] >> \o Tail(rest)

\* os.path.normpath on the components: "", "." dropped, ".." steps up
RECURSIVE Norm(_, _)
Norm(comps, stack) ==
  IF comps = <<>> THEN stack
  ELSE LET c == Head(comps) IN
       Norm(Tail(comps),
            IF c = <<>> \/ c = <<".">> THEN stack
            ELSE IF c = <<"..">>
            THEN (IF stack = <<>> THEN stack
                  ELSE SubSeq(stack, 1, Len(stack) - 1))
            ELSE Append(stack, c))

RECURSIVE Join(_)
Join(comps) ==
  IF comps = <<>> THEN <<>>
  ELSE <<"/">> \o Head(comps) \o Join(Tail(comps))
Rooted(comps) == IF comps = <<>> THEN <<"/">> ELSE Join(comps)

\* os.path.abspath(path)
abspath(path) ==
  Rooted(Norm(Split(IF path # <<>> /\ Head(path) = "/" THEN path
                    ELSE getcwd \o <<"/">> \o path), <<>>))

\* os.path.dirname of an absolute normalised path
dirname(abs_path) ==
  LET comps == Norm(Split(abs_path), <<>>)
  IN Rooted(SubSeq(comps, 1, Len(comps) - 1))

\* a check with receiver and argument exchanged
is_safe_Reversed(abs_path) ==
  \E i \in 1..Len(safe_write_directories) :
     startswith(safe_write_directories[i], abs_path)

\* any(abs_path.startswith(safe_dir) for safe_dir in self.safe_write_directories)
is_safe(abs_path) ==
  \E i \in 1..Len(safe_write_directories) :
     startswith(abs_path, safe_write_directories[i])

\* os.makedirs(dir, exist_ok=True): the directories it has to create, and
\* whether a file stands in the way
Ancestors(dir) ==
  LET comps == Norm(Split(dir), <<>>)
  IN {<<"/">>} \cup {Join(SubSeq(comps, 1, k)) : k \in 1..Len(comps)}
Blocked(fs, dir) == \E a \in Ancestors(dir) : a \in DOMAIN fs

\* the paths and contents callers pass
Paths ==
  { <<"/", "tmp", "/", "x">>,
    <<"/", "tmp", "/", "new", "/", "x">>,
    <<"/", "tmp", "foo", "/", "x">>,
    <<"/", "etc", "/", "passwd">>,
    <<"/", "tmp", "/", "..", "/", "etc", "/", "passwd">>,
    <<"uploads", "/", "x">>,
    <<"x">>,
    <<"/", "tmp">> }
Contents == {"new", ""}

\* len(content)
len(content) == IF content = "" THEN 0 ELSE 3

\* the last file-tool call and what it returned
FileOutcome(call, id, path, abs_path, res) ==
  [call |-> call, id |-> id, kind |-> "returned", path |-> path,
   abs_path |-> abs_path, result |-> res]

WriteFile(path, content) ==
  /\ tool_calls < MaxToolCalls
  /\ tool_calls' = tool_calls + 1
  /\ LET abs_path == abspath(path)
         dir == dirname(abs_path)
     IN
     IF ~is_safe(abs_path)
     THEN /\ outcome' = FileOutcome("write_file", tool_calls', path, abs_path,
                          [error |-> "permission denied", path |-> path])
          /\ UNCHANGED <<files, dirs>>
     ELSE IF Blocked(files, dir)
     THEN \* makedirs raises, nothing was created
          /\ outcome' = FileOutcome("write_file", tool_calls', path, abs_path,
                          [error |-> "failed to write file"])
          /\ UNCHANGED <<files, dirs>>
     ELSE IF abs_path \in dirs \cup Ancestors(dir)
     THEN \* open(abs_path, 'w') on a directory raises
          /\ dirs' = dirs \cup Ancestors(dir)
          /\ outcome' = FileOutcome("write_file", tool_calls', path, abs_path,
                          [error |-> "failed to write file"])
          /\ UNCHANGED files
     ELSE \E io \in {"ok", "write fails"} :
          /\ dirs' = dirs \cup Ancestors(dir)
          /\ files' = WithFile(files, abs_path,
                               IF io = "ok" THEN content ELSE "")
          /\ outcome' = FileOutcome("write_file", tool_calls', path, abs_path,
                          IF io = "ok"
                          THEN [tool |-> "write_file", status |-> "success",
                                path |-> abs_path,
                                bytes_written |-> len(content)]
                          ELSE [error |-> "failed to write file"])
  /\ UNCHANGED <<toolchains, procs, jpc, job, plane_vars,
                 settings_vars>>

DeleteFile(path) ==
  /\ tool_calls < MaxToolCalls
  /\ tool_calls' = tool_calls + 1
  /\ LET abs_path == abspath(path) IN
     /\ outcome' = FileOutcome("delete_file", tool_calls', path, abs_path,
          IF ~is_safe(abs_path) THEN [error |-> "permission denied"]
          ELSE IF ~Exists(files, dirs, abs_path)
          THEN [error |-> "file not found", path |-> path]
          ELSE IF abs_path \in dirs
          THEN [error |-> "failed to delete file"]
          ELSE [tool |-> "delete_file", status |-> "success",
                path |-> abs_path])
     /\ files' = IF is_safe(abs_path) /\ abs_path \in DOMAIN files
                 THEN WithoutFile(files, abs_path) ELSE files
  /\ UNCHANGED <<dirs, toolchains, procs, jpc, job, plane_vars,
                 settings_vars>>

\* the commands and argument lists callers pass; args is a list or None
Commands ==
  { <<"ls">>, <<"cat">>, <<"rm">>, <<"ls", ";", "rm">>, <<"/", "bin", "/", "ls">> }
PyList(l) == [t |-> "list", s |-> l]
ArgLists ==
  { PyNone, PyList(<<>>), PyList(<< <<"-la">> >>),
    PyList(<< <<"x">>, <<";", "rm", " ", "-rf", " ", "/">> >>) }

\* a whitelist test on the first word of the command only
Whitelisted_FirstWord(command) ==
  \E i \in 1..Len(command_whitelist) : command_whitelist[i][1] = command[1]

\* command in self.command_whitelist
Whitelisted(command) ==
  \E i \in 1..Len(command_whitelist) : command_whitelist[i] = command

\* " ".join(cmd_list)
RECURSIVE SpaceJoin(_)
SpaceJoin(words) ==
  IF words = <<>> THEN <<>>
  ELSE IF Len(words) = 1 THEN words[1]
  ELSE words[1] \o <<" ">> \o SpaceJoin(Tail(words))

CommandOutcome(id, command, args, spawns, res) ==
  [call |-> "execute_command", id |-> id, kind |-> "returned",
   command |-> command, args |-> args, spawns |-> spawns, result |-> res]

ExecuteCommand(command, args) ==
  /\ tool_calls < MaxToolCalls
  /\ tool_calls' = tool_calls + 1
  /\ IF ~Whitelisted(command)
     THEN outcome' = CommandOutcome(tool_calls', command, args, <<>>,
                       [error |-> "command not allowed", command |-> command])
     ELSE LET cmd_list == <<command>> \o (IF args.t = "list" THEN args.s
                                          ELSE <<>>)
              spawn == [argv |-> cmd_list, shell |-> FALSE, cwd |-> getcwd]
          IN \E run \in {"exits", "times out", "not started"} :
             outcome' =
               CASE run = "exits" ->
                      CommandOutcome(tool_calls', command, args, <<spawn>>,
                        [tool |-> "execute_command", status |-> "success",
                         command |-> SpaceJoin(cmd_list)])
                 [] run = "times out" ->
                      CommandOutcome(tool_calls', command, args, <<spawn>>,
                        [error |-> "command timed out"])
                 [] run = "not started" ->
                      CommandOutcome(tool_calls', command, args, <<>>,
                        [error |-> "failed to execute command"])
  /\ UNCHANGED <<host_vars, jpc, job, plane_vars,
                 settings_vars>>

HostNext ==
  \/ \E path \in Paths : \E content \in Contents : WriteFile(path, content)
  \/ \E path \in Paths : DeleteFile(path)
  \/ \E command \in Commands : \E args \in ArgLists :
       ExecuteCommand(command, args)

SpecHost == SandboxInit /\ [][HostNext]_vars

\* ---- properties of the file and command tools ----------------------------------
\* this step ends a call of the named tool
CallEnds(call) == outcome' # outcome /\ outcome'.call = call
\* abs_path lies in the directory root or is root itself
Inside(abs_path, root) ==
  LET a == Norm(Split(abs_path), <<>>)
      r == Norm(Split(root), <<>>)
  IN Len(r) <= Len(a) /\ SubSeq(a, 1, Len(r)) = r
InsideSomeRoot(abs_path) ==
  \E i \in 1..Len(safe_write_directories) :
     Inside(abs_path, safe_write_directories[i])
Denied(r) == "error" \in DOMAIN r /\ r.error = "permission denied"
\* the absolute target begins with the text of a writable root
PrefixedByRoot(abs_path) ==
  \E root \in Elems(safe_write_directories) :
     /\ Len(abs_path) >= Len(root)
     /\ \A k \in 1..Len(root) : abs_path[k] = root[k]
\* the command name is a member of the shell whitelist
InWhitelist(command) == command \in Elems(command_whitelist)

\* C18: a write_file whose resolved target lies outside every writable root
\* creates or modifies no file and no directory.
C18_WriteOutsideRootsChangesNothing ==
  [][(CallEnds("write_file") /\ ~InsideSomeRoot(outcome'.abs_path))
     => files' = files /\ dirs' = dirs]_vars

\* C19: write_file and delete_file on a target not prefixed by a writable
\* root return permission denied with the file system unchanged; delete_file
\* on an allowed path that does not exist returns file not found with the
\* file system unchanged.
C19_CheckBeforeMutation ==
  [][/\ ((CallEnds("write_file") \/ CallEnds("delete_file"))
          /\ ~PrefixedByRoot(outcome'.abs_path))
        => /\ Denied(outcome'.result)
           /\ files' = files /\ dirs' = dirs
     /\ (CallEnds("delete_file") /\ PrefixedByRoot(outcome'.abs_path)
          /\ ~Exists(files, dirs, outcome'.abs_path))
        => /\ "error" \in DOMAIN outcome'.result
           /\ outcome'.result.error = "file not found"
           /\ files' = files /\ dirs' = dirs]_vars

C19_Witness ==
  /\ outcome.call = "write_file"
  /\ outcome.path # outcome.abs_path
  /\ ~PrefixedByRoot(outcome.abs_path)
  /\ Denied(outcome.result)

\* C20: execute_command starts a process only for a command name in the
\* whitelist; any other name gives an error and starts nothing, whatever the
\* arguments; what is started is the vector of the name followed by the
\* arguments, never a shell string.
C20_WhitelistAndArgv ==
  outcome.call = "execute_command"
  => /\ ~InWhitelist(outcome.command)
        => /\ outcome.spawns = <<>>
           /\ "error" \in DOMAIN outcome.result
           /\ outcome.result.error = "command not allowed"
     /\ \A i \in 1..Len(outcome.spawns) :
          /\ InWhitelist(outcome.command)
          /\ ~outcome.spawns[i].shell
          /\ outcome.spawns[i].argv =
               <<outcome.command>> \o
                 (IF outcome.args.t = "list" THEN outcome.args.s ELSE <<>>)

C20_Witness ==
  /\ outcome.call = "execute_command"
  /\ ~InWhitelist(outcome.command)
  /\ outcome.args.t = "list" /\ outcome.args.s # <<>>
  /\ outcome.spawns = <<>>

\* ---- properties of the router ---------------------------------------------------
\* the action is the key of a handler
Registered(action) == action.t = "str" /\ action.s \in DOMAIN tool_map
UnknownAction(r) == "error" \in DOMAIN r /\ r.error = "unknown action"

\* C21: for an action with no registered handler the router invokes no
\* handler and returns the value {error: "unknown action: <name>"}; the call
\* does not fail.
C21_RouterDefends ==
  [][\A t \in Threads :
       (/\ pc[t] = "validated" /\ pc'[t] # "validated"
        /\ plan[t].isdict
        /\ ~Registered(GetAction(plan[t])))
       => /\ pc'[t] = "routed"
          /\ result'[t] = [error |-> "unknown action",
                           action |-> GetAction(plan[t])]
          /\ UNCHANGED registry_vars]_vars

C21_Witness ==
  \E i \in Finished :
    /\ history[i].kind = "success"
    /\ Truthy(GetAction(history[i].plan))
    /\ ~Registered(GetAction(history[i].plan))
    /\ UnknownAction(history[i].envelope.result)

\* ---- further properties of run_code ---------------------------------------------
\* the command run_code needs first for a language
Toolchain(language) ==
  IF lang_config[language].compile
  THEN (IF language = "rust" THEN "rustc" ELSE lang_config[language].compiler)
  ELSE lang_config[language].cmd[1]
FailedToRunResult(r) == "error" \in DOMAIN r /\ r.error = "failed to run"

\* C22: when the toolchain of the language is missing from the PATH, run_code
\* returns a structured error, starts nothing, and the source file it wrote
\* is removed before it returns.
C22_MissingToolchainIsAnError ==
  [][(/\ RunCodeEnds
      /\ outcome'.temp_path # <<>>
      /\ Toolchain(outcome'.language) \notin toolchains)
     => /\ outcome'.kind = "returned"
        /\ FailedToRunResult(outcome'.result)
        /\ outcome'.spawns = <<>>
        /\ outcome'.temp_path \notin DOMAIN files']_vars

C22_Witness ==
  /\ RunCodeEnded
  /\ toolchains = {}
  /\ outcome.temp_path # <<>>
  /\ outcome.language \in CompiledLanguages
  /\ FailedToRunResult(outcome.result)
  /\ outcome.result.exception = "FileNotFoundError"

\* C23: every plan that passes validation is dispatched to the handler of
\* its normalized action name, "name(args)" to the handler of name: no
\* execute call returns the unknown-action result.
C23_ValidatedPlanReachesItsHandler ==
  \A i \in Successes :
    LET action == GetAction(history[i].plan)
        r == history[i].envelope.result
    IN /\ ~UnknownAction(r)
       /\ Truthy(action) =>
            /\ "tool" \in DOMAIN r
            /\ <<r.tool>> = BaseAction(action.s)

\* C24: the stdout and stderr run_code returns, and the compiler diagnostic
\* of a compilation_error, are at most a fixed bound long, whatever the
\* program prints (the bound taken is the one execute_command applies).
C24_OutputBounded ==
  (RunCodeEnded /\ outcome.kind = "returned")
  => /\ "stdout" \in DOMAIN outcome.result
          => Len(outcome.result.stdout) <= OutputLimit
     /\ "stderr" \in DOMAIN outcome.result
          => Len(outcome.result.stderr) <= OutputLimit

\* ---- the whole core ------------------------------------------------------------
\* execute calls, run_code calls, and file and command calls, one kind of
\* workload in each behaviour
CorePlans ==
  { DictPlan({"action"}, PyStr(<<"rm_rf">>), {}),
    DictPlan(BothKeys, PyStr(<<"set_assignment">>), AssignmentParams),
    DictPlan(BothKeys, PyStr(<<"set_assignment">>), SessionParams),
    DictPlan(BothKeys, PyStr(<<"set_assignment", " ", "(", "x", ")">>),
             AssignmentParams),
    DictPlan(BothKeys, PyStr(<<"update_learner_profile">>),
             ProfileParams("t1")),
    DictPlan(BothKeys, PyStr(<<"log_interaction">>), EventParams) }
CoreSubmissions ==
  { <<"print(1/0)", "python">>, <<"sleep", "go">>,
    <<"syntax error", "rust">>, <<"slow build", "cpp">>,
    <<"print(1/0)", "c">>, <<"print(2 + 2)", "cobol">> }

CoreNext ==
  \/ /\ tool_calls = 0
     /\ toolchains = AllToolchains
     /\ \/ \E t \in Threads : \E p \in CorePlans : Validate(t, p)
        \/ \E t \in Threads : Route(t)
        \/ \E t \in Threads : LogExecution(t)
        \/ \E t \in Threads : Return(t)
  \/ /\ started = 0
     /\ outcome.call \in {"none", "run_code"}
     /\ \/ \E j \in Jobs : \E sub \in CoreSubmissions :
             RunCode(j, sub[1], sub[2])
        \/ \E j \in Jobs : CompileSpawn(j)
        \/ \E j \in Jobs : CompileWait(j)
        \/ \E j \in Jobs : ExecSpawn(j)
        \/ \E j \in Jobs : ExecWait(j)
  \/ /\ started = 0
     /\ \A j \in Jobs : jpc[j] = "idle"
     /\ outcome.call # "run_code"
     /\ HostNext

SpecCore == SandboxInit /\ [][CoreNext]_vars

\* the commands a run_code call has started hold no command twice, and at
\* most the compiler and the program
StartedOnce(spawns, language) ==
  /\ Len(spawns) <= (IF language \in CompiledLanguages THEN 2 ELSE 1)
  /\ \A a, b \in 1..Len(spawns) : spawns[a] = spawns[b] => a = b

\* C25: nothing is retried: an execute call invokes the routed handler at
\* most once, and a run_code call starts the compiler at most once and the
\* program at most once, also after a failure or a timeout.
C25_NoRetry ==
  [][/\ \A t \in Threads :
          /\ (pc[t] = "validated" /\ (pc'[t] # pc[t] \/ result'[t] # result[t]))
               => pc'[t] \in {"routed", "idle"}
          /\ pc'[t] = "validated" => pc[t] \in {"idle", "validated"}
     /\ \A j \in Jobs : StartedOnce(job'[j].spawns, job'[j].language)
     /\ RunCodeEnds
          => StartedOnce(outcome'.spawns, outcome'.language)]_vars

C25_Witness ==
  /\ RunCodeEnded
  /\ outcome.kind = "returned"
  /\ TimedOutResult(outcome.result)
  /\ Len(outcome.spawns) = 1

\* C26: a failing cleanup does not mask the original error: a run_code call
\* in which a fault or a timeout is handled ends by returning the structured
\* result of that error; it never ends by raising from its handler.
C26_CleanupDoesNotMask ==
  RunCodeEnded
  => /\ outcome.kind = "returned"
     /\ "error" \in DOMAIN outcome.result
          => \/ TimedOutResult(outcome.result)
             \/ FailedToRunResult(outcome.result)
             \/ outcome.result.error = "unsupported language"

\* ---- properties of the whole core ----------------------------------------------
\* what a later request reads: the policy, the registry and the host
ErrorResult(r) == "error" \in DOMAIN r
\* the step ends an execute call by a rejection
RejectionStep ==
  /\ Len(history') = Len(history) + 1
  /\ history'[Len(history')].kind = "rejected"
\* the files a run_code call made are gone and every other file is as it was
OnlyOwnFilesGone(o) ==
  LET own == {o.created, o.output_path} IN
  /\ \A f \in DOMAIN files' : f \in DOMAIN files /\ files'[f] = files[f]
  /\ \A f \in DOMAIN files : f \notin own => f \in DOMAIN files'
  /\ \A f \in own : f \notin DOMAIN files'

\* C27: a failed request leaves the core as it was for the requests after
\* it: a rejection changes nothing; a routed failure changes nothing but the
\* audit log, which gets one entry; a tool call that ends with an error
\* result leaves the policy, the directories and all files but its own
\* temporary ones as they were.
C27_AvailableAfterFailure ==
  [][/\ RejectionStep
          => UNCHANGED <<policy_vars, execution_log, registry_vars, host_vars>>
     /\ \A t \in Threads :
          /\ (/\ pc[t] = "validated" /\ pc'[t] = "routed"
              /\ ErrorResult(result'[t]))
               => UNCHANGED <<policy_vars, execution_log, registry_vars,
                              host_vars>>
          /\ (/\ pc[t] = "routed" /\ pc'[t] = "appended"
              /\ ErrorResult(result[t]))
               => /\ execution_log' =
                       Append(execution_log,
                              [timestamp |-> clock', plan |-> plan[t],
                               result |-> result[t]])
                  /\ UNCHANGED <<policy_vars, registry_vars, host_vars>>
     /\ (/\ RunCodeEnds
         /\ outcome'.kind = "returned"
         /\ ErrorResult(outcome'.result))
          => /\ UNCHANGED <<policy_vars, dirs, execution_log, registry_vars>>
             /\ OnlyOwnFilesGone(outcome')
     /\ ((CallEnds("write_file") \/ CallEnds("delete_file"))
          /\ Denied(outcome'.result))
          => UNCHANGED <<policy_vars, files, dirs, execution_log,
                         registry_vars>>]_vars

C27_Witness ==
  \E i, k \in Finished :
    /\ i < k
    /\ history[i].kind = "rejected"
    /\ history[k].kind = "success"
    /\ ~ErrorResult(history[k].envelope.result)

\* the paths a running run_code call owns: its source file and, once
\* derived, its output path
OwnPaths(jb) == {jb.temp_path, jb.output_path} \ {<<>>}

\* C28: two run_code calls that run at the same time use disjoint files: the
\* source path and the derived output path of one are never a path of the
\* other.
C28_DisjointFiles ==
  \A i, j \in Jobs :
    (i # j /\ jpc[i] # "idle" /\ jpc[j] # "idle")
    => OwnPaths(job[i]) \cap OwnPaths(job[j]) = {}

\* C29: the safety policy is read-only after construction: no step changes
\* the allowed-action list, the parameter ceiling, the shell whitelist or the
\* writable-root list.
C29_PolicyReadOnly ==
  [][/\ safety_rules' = safety_rules
     /\ safety_rules = InitialSafetyRules
     /\ command_whitelist' = command_whitelist
     /\ command_whitelist = InitialWhitelist
     /\ safe_write_directories' = safe_write_directories
     /\ safe_write_directories = InitialWriteDirectories]_vars

C29_Witness ==
  /\ \E i \in Finished : history[i].kind = "raised"
  /\ \E i \in Finished : history[i].kind = "rejected"
  /\ safety_rules = InitialSafetyRules

\* C30: the allowed action names and the action names with a handler are the
\* same set: every allowed action has its handler and no handler belongs to
\* an action validation rejects.
C30_AllowedEqualsRouted ==
  /\ DOMAIN tool_map = allowed_tools
  /\ \A action \in DOMAIN tool_map :
       validate_request(DictPlan({"action"}, PyStr(action), {}))
  /\ \A i \in Successes :
       LET action == GetAction(history[i].plan) IN
       (Truthy(action) /\ action.s \in allowed_tools)
       => ~UnknownAction(history[i].envelope.result)

C30_Witness ==
  \E i \in Successes :
    /\ GetAction(history[i].plan) = PyStr(<<"log_interaction">>)
    /\ history[i].envelope.result.tool = tool_map[<<"log_interaction">>]

====
